---- MODULE Spec2Model ----
(***************************************************************************)
(* Library room booking: the submitBookingRequest function                 *)
(* (src/netlify/functions/submitBookingRequest.js) run by several          *)
(* concurrent invocations against the shared store (tables rooms,          *)
(* bookings, booking_requests).                                            *)
(*                                                                         *)
(* Instants are whole minutes: day * 1440 + minute of the day.  The        *)
(* handler builds its start instant with seconds and milliseconds zero,    *)
(* so comparing it with the clock floored to the minute is exact.  The     *)
(* function's local zone is taken to be UTC, as on the hosting platform.   *)
(* Strings are sequences of one-character strings, "" is << >>.            *)
(***************************************************************************)
EXTENDS Integers, Sequences, FiniteSets, TLC

\* ------------------------------------------------------------------ bounds
NumProcs == 2          \* concurrent invocations of the function
MaxRequests == 2       \* rows the booking_requests table may grow to
MaxTicks == 1          \* clock advances observed
TickMinutes == 30      \* size of one clock advance
MaxLoads == 3          \* calls of loadRooms in one behaviour

Procs == 1..NumProcs

\* ------------------------------------------------------------ JS helpers
MinutesPerDay == 1440
MinutesPerHour == 60

Digits == {"0", "1", "2", "3", "4", "5", "6", "7", "8", "9"}

DigitVal(c) ==
    CASE c = "0" -> 0 [] c = "1" -> 1 [] c = "2" -> 2 [] c = "3" -> 3
      [] c = "4" -> 4 [] c = "5" -> 5 [] c = "6" -> 6 [] c = "7" -> 7
      [] c = "8" -> 8 [] c = "9" -> 9

\* the pattern without its anchors: six digits in a row somewhere in s
StudentIdRegexUnanchored(s) ==
    \E k \in 1..Len(s) :
        /\ k + 5 <= Len(s)
        /\ \A i \in k..(k + 5) : s[i] \in Digits

\* /^[0-9]{6,7}$/.test(s)
StudentIdRegex(s) ==
    /\ Len(s) >= 6
    /\ Len(s) <= 7
    /\ \A i \in 1..Len(s) : s[i] \in Digits

\* s.split(':') : the pieces of s between the colons
RECURSIVE Split(_)
Split(s) ==
    IF \A i \in 1..Len(s) : s[i] # ":"
    THEN <<s>>
    ELSE LET k == CHOOSE i \in 1..Len(s) :
                     s[i] = ":" /\ \A j \in 1..(i - 1) : s[j] # ":"
         IN  <<SubSeq(s, 1, k - 1)>> \o Split(SubSeq(s, k + 1, Len(s)))

\* value of a run of digits
RECURSIVE DigitsValue(_)
DigitsValue(s) ==
    IF s = << >> THEN 0
    ELSE 10 * DigitsValue(SubSeq(s, 1, Len(s) - 1)) + DigitVal(s[Len(s)])

\* the longest prefix of s made of digits
RECURSIVE DigitPrefix(_)
DigitPrefix(s) ==
    IF s = << >> \/ s[1] \notin Digits THEN << >>
    ELSE <<s[1]>> \o DigitPrefix(Tail(s))

\* parseInt(s): << >> stands for NaN, <<n>> for the number n.  An optional
\* sign, then the longest run of digits; the rest of s is ignored.
ParseInt(s) ==
    LET neg  == s # << >> /\ s[1] = "-"
        body == IF s # << >> /\ s[1] \in {"-", "+"} THEN Tail(s) ELSE s
        ds   == DigitPrefix(body)
    IN  IF ds = << >> THEN << >>
        ELSE IF neg THEN <<0 - DigitsValue(ds)>> ELSE <<DigitsValue(ds)>>

\* parseInt(parts[i]) where parts[i] is undefined past the end of the array
ParseIntAt(parts, i) ==
    IF i <= Len(parts) THEN ParseInt(parts[i]) ELSE << >>

\* new Date(y, m, d, hours, minutes) on calendar day d: hours and minutes
\* beyond their range carry over into the next (or previous) day; a NaN
\* component gives an Invalid Date, written << >>.
NewDate(day, hours, minutes) ==
    IF hours = << >> \/ minutes = << >> THEN << >>
    ELSE <<day * MinutesPerDay + hours[1] * MinutesPerHour + minutes[1]>>

\* the calendar day an instant falls on: getDate() of a Date
DayOf(t) == t \div MinutesPerDay

\* date.toISOString(): the UTC fields <<day, hour, minute>> of the instant
ToISOString(t) ==
    <<t \div MinutesPerDay,
      (t % MinutesPerDay) \div MinutesPerHour,
      t % MinutesPerHour>>

\* the instant a stored timestamp denotes (the store compares timestamps)
InstantOf(iso) == iso[1] * MinutesPerDay + iso[2] * MinutesPerHour + iso[3]

\* ------------------------------------------------------ response messages
MissingFields == "Missing required fields: student_id, room_id, start_time, duration"
InvalidStudentId == "Invalid student ID format. Must be 6-7 digits."
InvalidDuration == "Duration must be between 30 and 120 minutes."
InvalidRoom == "Invalid room ID"
InactiveRoom == "This room is currently inactive"
StartTimeInPast == "Start time must be in the future"
RoomAlreadyBooked == "This room is already booked for the selected time"
SubmitFailed == "Failed to submit booking request"
MethodNotAllowed == "Method not allowed"
Submitted == "Booking request submitted successfully"

\* a response: statusCode, body.message ("" for the empty body) and
\* body.request_id (0 when the body has none)
Response(code, msg, id) == [statusCode |-> code, message |-> msg, request_id |-> id]

NoResponse == Response(0, "", 0)

\* ------------------------------------------------------------ the inputs
Fields == {"student_id", "room_id", "start_time", "duration"}

Id5 == <<"1", "2", "3", "4", "5">>
Id6 == <<"1", "2", "3", "4", "5", "6">>
Id7 == <<"1", "2", "3", "4", "5", "6", "7">>
Id8 == <<"1", "2", "3", "4", "5", "6", "7", "8">>
IdAlpha == <<"1", "2", "a", "4", "5", "6">>
IdNewline == <<"1", "2", "3", "4", "5", "6", "\n">>

Clock0800 == <<"0", "8", ":", "0", "0">>
Clock0930 == <<"0", "9", ":", "3", "0">>
Clock1030 == <<"1", "0", ":", "3", "0">>
Clock1130 == <<"1", "1", ":", "3", "0">>
Clock1200 == <<"1", "2", ":", "0", "0">>
Clock2345 == <<"2", "3", ":", "4", "5">>
Clock2500 == <<"2", "5", ":", "0", "0">>
Clock1075 == <<"1", "0", ":", "7", "5">>
ClockNoColon == <<"1", "2", "0", "0">>
ClockWords == <<"n", "o", ":", "o", "n">>

Body(sid, rid, st, dur) ==
    [student_id |-> sid, room_id |-> rid, start_time |-> st, duration |-> dur]

\* the object with only the fields in S of b
Only(b, S) == [f \in S |-> b[f]]

BaseBody == Body(Id6, 1, Clock1200, 30)

\* combinations of a good and a bad value for each rule
MixedBodies ==
    { Body(sid, rid, st, dur) :
        sid \in {Id6, Id5}, rid \in {1, 3, 4},
        st \in {Clock0930, Clock1130}, dur \in {30, 29} }

StudentIdBodies ==
    { Body(sid, 1, Clock1200, 30) : sid \in {Id5, Id6, Id7, Id8, IdAlpha, IdNewline, << >>} }

DurationBodies ==
    { Body(Id6, 1, Clock1200, dur) : dur \in {0, 29, 30, 120, 121} }

RoomBodies ==
    { Body(Id6, rid, Clock1130, 30) : rid \in {0, 1, 2, 3, 4} }

ClockBodies ==
    { Body(Id6, 1, st, 30) :
        st \in {<< >>, Clock0800, Clock0930, Clock1030, Clock1130, Clock1200,
                Clock2500, Clock1075, ClockNoColon, ClockWords} }
    \cup { Body(Id6, 1, st, 120) : st \in {Clock1030, Clock2345} }

PartialBodies ==
    { Only(b, S) : b \in {BaseBody, Body(Id5, 4, Clock0800, 29)}, S \in SUBSET Fields }

\* JSON.parse(event.body) succeeds on the text of an object and throws on an
\* absent or empty body; the text "null" parses, and destructuring it throws
JsonObject(b) == [text |-> "object", value |-> b]
JsonUnparsed(t) == [text |-> t, value |-> << >>]

Event(m, body) == [httpMethod |-> m, body |-> body]

SequentialEvents ==
    { Event("POST", JsonObject(b)) :
        b \in MixedBodies \cup StudentIdBodies \cup DurationBodies
              \cup RoomBodies \cup ClockBodies \cup PartialBodies }
    \cup { Event("POST", JsonUnparsed(t)) : t \in {"undefined", "", "null"} }
    \cup { Event(m, JsonObject(BaseBody)) : m \in {"OPTIONS", "GET"} }

ConcurrentEvents ==
    { Event("POST", JsonObject(b)) :
        b \in { Body(Id6, 1, Clock1030, 30), Body(Id6, 1, Clock1030, 120),
                Body(Id7, 1, Clock1200, 30), Body(Id7, 2, Clock1200, 30) } }

\* ------------------------------------------------------------- the store
Today == 1
InitNow == Today * MinutesPerDay + 9 * MinutesPerHour

At(day, h, m) == ToISOString(day * MinutesPerDay + h * MinutesPerHour + m)

Rooms ==
    { [id |-> 1, name |-> "Room 1", is_active |-> TRUE],
      [id |-> 2, name |-> "Room 2", is_active |-> TRUE],
      [id |-> 3, name |-> "Room 3", is_active |-> FALSE] }

Booking(i, rid, sid, s, e) ==
    [id |-> i, room_id |-> rid, student_id |-> sid, start_time |-> s, end_time |-> e]

\* confirmed bookings the approval workflow may have left in the store
PossibleBookings ==
    { Booking(1, 1, Id6, At(Today, 11, 0), At(Today, 12, 0)),
      Booking(2, 2, Id7, At(Today, 10, 0), At(Today, 11, 0)) }

\* the bookings of a day around the display window, none of a room
\* overlapping another of the same room: one ending as the window opens, one
\* starting as it closes, one before it, one after it, one of the day
\* before, one of the inactive room
DayBookings ==
    { Booking(1, 1, Id6, At(Today, 8, 0), At(Today, 9, 0)),
      Booking(2, 2, Id7, At(Today, 9, 30), At(Today, 11, 0)),
      Booking(3, 3, Id6, At(Today, 8, 30), At(Today, 10, 0)),
      Booking(4, 1, Id7, At(Today, 7, 0), At(Today, 8, 0)),
      Booking(5, 2, Id6, At(Today, 19, 0), At(Today, 20, 0)),
      Booking(6, 1, Id6, At(Today, 19, 30), At(Today, 20, 30)),
      Booking(7, 2, Id7, At(Today - 1, 10, 0), At(Today - 1, 11, 0)),
      Booking(8, 1, Id7, At(Today, 6, 0), At(Today, 6, 30)) }

\* the contents of table bookings the read endpoints are run against
ReadStores == { {}, DayBookings, {b \in DayBookings : b.room_id # 1} }

\* what the submission client sends while the read endpoints are called
ReadEvents ==
    { Event("OPTIONS", JsonUnparsed("")),
      Event("GET", JsonObject(Body(Id5, 1, Clock1200, 29))),
      Event("POST", JsonObject(BaseBody)),
      Event("POST", JsonObject(Body(Id5, 1, Clock1200, 30))),
      Event("POST", JsonObject(Body(Id6, 3, Clock1200, 30))),
      Event("POST", JsonObject(Body(Id6, 2, Clock1030, 30))) }

\* the methods the read endpoints are called with
Methods == {"GET", "OPTIONS", "POST"}

VARIABLES
    workload,          \* "sequential": one client; "concurrent": NumProcs of them;
                       \* "read": one client and the read endpoints
    now,               \* the clock, in minutes
    ticks,             \* clock advances so far
    rooms,             \* table rooms
    bookings,          \* table bookings
    booking_requests,  \* table booking_requests, in insertion order
    pc,                \* where each invocation stands
    event,             \* the event each invocation was called with
    startDateTime,     \* local of the handler: << >> unset or invalid, <<t>>
    endDateTime,       \* local of the handler
    pendingConflicts,  \* local of the handler: ids the pending query returned
    response,          \* what each invocation returned
    checkedAt,         \* history: the clock read by each invocation (line 101)
    overlapped,        \* history: invocations in flight together with each one
    submittedAt,       \* history: for each row, the clock its invocation read
    queries,           \* history: storage operations each invocation has issued
    failure,           \* history: the storage operation of each invocation that failed
    reader,            \* the invocation of getRooms or getRoomSchedules under way
    client             \* the page: its rooms and its calls of loadRooms

vars == <<workload, now, ticks, rooms, bookings, booking_requests, pc, event,
          startDateTime, endDateTime, pendingConflicts, response, checkedAt,
          overlapped, submittedAt, queries, failure, reader, client>>

store == <<rooms, bookings, booking_requests>>

Events ==
    CASE workload = "sequential" -> SequentialEvents
      [] workload = "concurrent" -> ConcurrentEvents
      [] workload = "read" -> ReadEvents

Clients == IF workload = "concurrent" THEN Procs ELSE {1}

InitialBookings ==
    IF workload \in {"read", "client"} THEN ReadStores ELSE SUBSET PossibleBookings

InFlight(p) == pc[p] \in {"room", "conflicts", "pending", "insert"}

\* the two read endpoints
Endpoints == {"getRooms", "getRoomSchedules"}

\* the answer of a read endpoint: statusCode, body.message ("" when the body
\* has none), body.date (<< >> when it has none, else <<day>>) and the room
\* entries of the body (<< >> when it has none)
Answer(code, msg, date, entries) ==
    [statusCode |-> code, message |-> msg, date |-> date, rooms |-> entries]

NoAnswer == Answer(0, "", << >>, << >>)

\* what is kept of a GET's answer once its invocation is over: the endpoint,
\* the clock it had read, the answer, and whether the submission handler
\* was idle when the invocation ended
Past(h, t, a, quiet) == [endpoint |-> h, now |-> t, response |-> a, quiet |-> quiet]

NoPast == Past("", 0, NoAnswer, FALSE)

\* no invocation of a read endpoint under way; prev is the last GET's answer
IdleReader(prev) ==
    [pc |-> "idle", endpoint |-> "", httpMethod |-> "", now |-> 0, rooms |-> << >>,
     response |-> NoAnswer, queries |-> 0, failed |-> FALSE, rejected |-> FALSE,
     prev |-> prev]

\* the two callers of loadRooms: the refresh button and the interval timer
Loads == {"manual", "timer"}

\* a call of loadRooms that is not under way
IdleLoad ==
    [pc |-> "idle", issue |-> 0, answer |-> NoAnswer, servedAt |-> 0,
     outcome |-> "", overlapped |-> FALSE, queried |-> {}]

InitCommon ==
    /\ now = InitNow
    /\ ticks = 0
    /\ rooms = Rooms
    /\ bookings \in InitialBookings
    /\ booking_requests = << >>
    /\ pc = [p \in Procs |-> "idle"]
    /\ event = [p \in Procs |-> Event("", JsonUnparsed(""))]
    /\ startDateTime = [p \in Procs |-> << >>]
    /\ endDateTime = [p \in Procs |-> << >>]
    /\ pendingConflicts = [p \in Procs |-> {}]
    /\ response = [p \in Procs |-> NoResponse]
    /\ checkedAt = [p \in Procs |-> 0]
    /\ overlapped = [p \in Procs |-> {}]
    /\ submittedAt = << >>
    /\ queries = [p \in Procs |-> 0]
    /\ failure = [p \in Procs |-> ""]
    /\ reader = IdleReader(NoPast)
    /\ client = [rooms |-> << >>, issued |-> 0, last |-> "",
                 shown |-> FALSE, refreshInterval |-> FALSE,
                 loads |-> [l \in Loads |-> IdleLoad]]

Init == workload = "sequential" /\ InitCommon

InitConcurrent == workload = "concurrent" /\ InitCommon

InitRead == workload = "read" /\ InitCommon

InitClient == workload = "client" /\ InitCommon

\* ---------------------------------------------------- the handler's rules
\* a check of presence only
FalsyAbsentOnly(b, f) == f \notin DOMAIN b

\* !x for a destructured field: absent (undefined), "" or 0
Falsy(b, f) ==
    \/ f \notin DOMAIN b
    \/ b[f] = (IF f \in {"student_id", "start_time"} THEN << >> ELSE 0)

\* line 41
FieldsMissing(b) == \E f \in Fields : Falsy(b, f)

\* the range with its upper end left out
DurationOutOfRangeExclusive(duration) == duration < 30 \/ duration >= 120

\* line 63
DurationOutOfRange(duration) == duration < 30 \/ duration > 120

\* the same checks with the duration looked at before the student id
ValidateDurationFirst(b) ==
    IF FieldsMissing(b) THEN MissingFields
    ELSE IF DurationOutOfRange(b.duration) THEN InvalidDuration
    ELSE IF ~StudentIdRegex(b.student_id) THEN InvalidStudentId
    ELSE ""

\* lines 41-71: the message of the first check the body fails, "" if none
Validate(b) ==
    IF FieldsMissing(b) THEN MissingFields
    ELSE IF ~StudentIdRegex(b.student_id) THEN InvalidStudentId
    ELSE IF DurationOutOfRange(b.duration) THEN InvalidDuration
    ELSE ""

\* the lookup with a filter on active rooms added
RoomRowsActiveOnly(room_id) == { r \in rooms : r.id = room_id /\ r.is_active }

\* lines 74-78: .from('rooms').select('id, is_active').eq('id', room_id)
RoomRows(room_id) == { r \in rooms : r.id = room_id }

\* lines 102-103
StartOf(today, start_time) ==
    LET parts == Split(start_time)
    IN  NewDate(DayOf(today), ParseIntAt(parts, 1), ParseIntAt(parts, 2))

\* line 104
EndOf(start, duration) ==
    IF start = << >> THEN << >> ELSE <<start[1] + duration>>

\* the comparison made strict
NotInFutureStrict(start, t) == start # << >> /\ start[1] < t

\* line 107: an Invalid Date compares false with everything
NotInFuture(start, t) == start # << >> /\ start[1] <= t

\* the filter with closed comparisons (lte, gte)
ConflictsClosed(room_id, startIso, endIso) ==
    { b \in bookings :
        /\ b.room_id = room_id
        /\ InstantOf(b.start_time) <= InstantOf(endIso)
        /\ InstantOf(b.end_time) >= InstantOf(startIso) }

\* lines 118-123: .eq('room_id', room_id).lt('start_time', end).gt('end_time', start)
Conflicts(room_id, startIso, endIso) ==
    { b \in bookings :
        /\ b.room_id = room_id
        /\ InstantOf(b.start_time) < InstantOf(endIso)
        /\ InstantOf(b.end_time) > InstantOf(startIso) }

\* lines 140-146: the same filter on booking_requests with status pending
PendingRows(room_id, startIso, endIso) ==
    { i \in 1..Len(booking_requests) :
        /\ booking_requests[i].room_id = room_id
        /\ booking_requests[i].status = "pending"
        /\ InstantOf(booking_requests[i].start_time) < InstantOf(endIso)
        /\ InstantOf(booking_requests[i].end_time) > InstantOf(startIso) }

\* ------------------------------------------------------------ the actions
Locals == <<startDateTime, endDateTime, pendingConflicts>>

\* the invocation returns r
Return(p, r) ==
    /\ pc' = [pc EXCEPT ![p] = "done"]
    /\ response' = [response EXCEPT ![p] = r]
    /\ UNCHANGED queries

\* the invocation suspends at its next await
Await(p, label) ==
    /\ pc' = [pc EXCEPT ![p] = label]
    /\ queries' = [queries EXCEPT ![p] = @ + 1]
    /\ UNCHANGED response

\* lines 9-78: the handler is called with event ev and runs to the await of
\* the room lookup.  Calls are taken only while every invocation in flight
\* can still insert its row within MaxRequests.
Begin(p, ev) ==
    /\ pc[p] = "idle"
    /\ Len(booking_requests) + Cardinality({q \in Procs : InFlight(q)}) < MaxRequests
    /\ event' = [event EXCEPT ![p] = ev]
    /\ overlapped' =
         [q \in Procs |->
            IF q = p THEN {r \in Procs : InFlight(r)}
            ELSE IF InFlight(q) THEN overlapped[q] \cup {p}
            ELSE overlapped[q]]
    /\ LET b == ev.body.value
       IN  IF ev.httpMethod = "OPTIONS" THEN Return(p, Response(200, "", 0))
           ELSE IF ev.httpMethod # "POST" THEN Return(p, Response(405, MethodNotAllowed, 0))
           ELSE IF ev.body.text # "object" THEN Return(p, Response(500, SubmitFailed, 0))
           ELSE IF Validate(b) # "" THEN Return(p, Response(400, Validate(b), 0))
           ELSE Await(p, "room")
    /\ UNCHANGED <<failure, client, reader, workload, now, ticks, store, Locals, checkedAt, submittedAt>>

\* lines 80-123: the room lookup resolves; the handler checks the room,
\* reads the clock, computes the interval and issues the conflict query
RoomLookup(p) ==
    /\ pc[p] = "room"
    /\ LET b     == event[p].body.value
           found == RoomRows(b.room_id)
           start == StartOf(now, b.start_time)
           end   == EndOf(start, b.duration)
       IN  IF Cardinality(found) # 1
           THEN /\ Return(p, Response(400, InvalidRoom, 0))
                /\ UNCHANGED <<Locals, checkedAt>>
           ELSE IF ~(CHOOSE r \in found : TRUE).is_active
           THEN /\ Return(p, Response(400, InactiveRoom, 0))
                /\ UNCHANGED <<Locals, checkedAt>>
           ELSE /\ startDateTime' = [startDateTime EXCEPT ![p] = start]
                /\ endDateTime' = [endDateTime EXCEPT ![p] = end]
                /\ checkedAt' = [checkedAt EXCEPT ![p] = now]
                /\ UNCHANGED pendingConflicts
                /\ IF NotInFuture(start, now)
                   THEN Return(p, Response(400, StartTimeInPast, 0))
                   ELSE IF end = << >>
                   THEN Return(p, Response(500, SubmitFailed, 0))
                   ELSE Await(p, "conflicts")
    /\ UNCHANGED <<failure, client, reader, workload, now, ticks, store, event, overlapped, submittedAt>>

\* lines 125-146: the conflict query resolves; the handler rejects on a
\* conflict, otherwise issues the pending-request query
ConflictCheck(p) ==
    /\ pc[p] = "conflicts"
    /\ LET b         == event[p].body.value
           conflicts == Conflicts(b.room_id, ToISOString(startDateTime[p][1]),
                                  ToISOString(endDateTime[p][1]))
       IN  IF conflicts # {}
           THEN Return(p, Response(409, RoomAlreadyBooked, 0))
           ELSE Await(p, "pending")
    /\ UNCHANGED <<failure, client, reader, workload, now, ticks, store, event, Locals, checkedAt,
                   overlapped, submittedAt>>

\* lines 148-163: the pending-request query resolves; its result is kept
\* and the handler issues the insert
PendingCheck(p) ==
    /\ pc[p] = "pending"
    /\ LET b == event[p].body.value
       IN  pendingConflicts' =
             [pendingConflicts EXCEPT ![p] =
                PendingRows(b.room_id, ToISOString(startDateTime[p][1]),
                            ToISOString(endDateTime[p][1]))]
    /\ Await(p, "insert")
    /\ UNCHANGED <<failure, client, reader, workload, now, ticks, store, event, startDateTime, endDateTime,
                   checkedAt, overlapped, submittedAt>>

\* the row with the start written into both columns
NewRequestSameEnd(b, start, end) ==
    [id |-> Len(booking_requests) + 1,
     student_id |-> b.student_id,
     room_id |-> b.room_id,
     start_time |-> ToISOString(start),
     end_time |-> ToISOString(start),
     status |-> "pending"]

\* a row that is born confirmed
NewRequestConfirmed(b, start, end) ==
    [id |-> Len(booking_requests) + 1,
     student_id |-> b.student_id,
     room_id |-> b.room_id,
     start_time |-> ToISOString(start),
     end_time |-> ToISOString(end),
     status |-> "confirmed"]

\* the row of lines 155-161, with the id the table gives it
NewRequest(b, start, end) ==
    [id |-> Len(booking_requests) + 1,
     student_id |-> b.student_id,
     room_id |-> b.room_id,
     start_time |-> ToISOString(start),
     end_time |-> ToISOString(end),
     status |-> "pending"]

\* an answer that turns the request down when pending requests overlap it
InsertAnswerUnlessPending(pending, id) ==
    IF pending # {} THEN Response(409, RoomAlreadyBooked, 0)
    ELSE Response(200, Submitted, id)

\* lines 169-176: the answer after the insert; pendingConflicts is in scope
\* and is not looked at
InsertAnswer(pending, id) == Response(200, Submitted, id)

\* lines 153-176: the insert resolves and the handler answers 200
Insert(p) ==
    /\ pc[p] = "insert"
    /\ LET newRequest == NewRequest(event[p].body.value, startDateTime[p][1],
                                    endDateTime[p][1])
       IN  /\ booking_requests' = Append(booking_requests, newRequest)
           /\ Return(p, InsertAnswer(pendingConflicts[p], newRequest.id))
    /\ submittedAt' = Append(submittedAt, checkedAt[p])
    /\ UNCHANGED <<failure, client, reader, workload, now, ticks, rooms, bookings, event, Locals, checkedAt,
                   overlapped>>

\* the invocation is over; the client may call the function again
Finish(p) ==
    /\ pc[p] = "done"
    /\ pc' = [pc EXCEPT ![p] = "idle"]
    /\ event' = [event EXCEPT ![p] = Event("", JsonUnparsed(""))]
    /\ startDateTime' = [startDateTime EXCEPT ![p] = << >>]
    /\ endDateTime' = [endDateTime EXCEPT ![p] = << >>]
    /\ pendingConflicts' = [pendingConflicts EXCEPT ![p] = {}]
    /\ response' = [response EXCEPT ![p] = NoResponse]
    /\ checkedAt' = [checkedAt EXCEPT ![p] = 0]
    /\ overlapped' = [overlapped EXCEPT ![p] = {}]
    /\ queries' = [queries EXCEPT ![p] = 0]
    /\ failure' = [failure EXCEPT ![p] = ""]
    /\ UNCHANGED <<client, reader, workload, now, ticks, store, submittedAt>>

\* time passes
Tick ==
    /\ ticks < MaxTicks
    /\ ticks' = ticks + 1
    /\ now' = now + TickMinutes
    /\ UNCHANGED <<failure, client, reader, workload, store, pc, event, Locals, response, checkedAt,
                   overlapped, submittedAt, queries>>

Next ==
    \/ \E p \in Clients : \E ev \in Events : Begin(p, ev)
    \/ \E p \in Clients : RoomLookup(p)
    \/ \E p \in Clients : ConflictCheck(p)
    \/ \E p \in Clients : PendingCheck(p)
    \/ \E p \in Clients : Insert(p)
    \/ \E p \in Clients : Finish(p)
    \/ Tick

Spec == Init /\ [][Next]_vars

SpecConcurrent == InitConcurrent /\ [][Next]_vars

TypeOK ==
    /\ workload \in {"sequential", "concurrent", "read", "client"}
    /\ ticks \in 0..MaxTicks
    /\ Len(booking_requests) <= MaxRequests
    /\ \A p \in Procs : pc[p] \in {"idle", "room", "conflicts", "pending", "insert", "done"}

\* ------------------------------------------------------ the read endpoints
\* getRooms (src/app.js) and getRoomSchedules

FetchRoomsFailed == "Failed to fetch rooms"
FetchSchedulesFailed == "Failed to fetch room schedules"

\* the hours the display window opens and closes at
WindowOpens == 8
WindowCloses == 19

\* .order('id') of a set of rows
RECURSIVE OrderById(_)
OrderById(S) ==
    IF S = {} THEN << >>
    ELSE LET r == CHOOSE r \in S : \A q \in S : r.id <= q.id
         IN  <<r>> \o OrderById(S \ {r})

\* every row, active or not
AllRooms == OrderById(rooms)

\* .from('rooms').eq('is_active', true).order('id')
ActiveRooms == OrderById({r \in rooms : r.is_active})

\* a booking counts until the instant before its end
ActiveBookingsHalfOpen(nowIso) ==
    { b \in bookings : /\ InstantOf(b.end_time) > InstantOf(nowIso)
                       /\ InstantOf(b.start_time) <= InstantOf(nowIso) }

\* .from('bookings').gte('end_time', now).lte('start_time', now)
ActiveBookings(nowIso) ==
    { b \in bookings : /\ InstantOf(b.end_time) >= InstantOf(nowIso)
                       /\ InstantOf(b.start_time) <= InstantOf(nowIso) }

\* rooms.map(...) over the occupied room ids
RoomsWithStatus(rs, activeBookings) ==
    LET occupiedRoomIds == {b.room_id : b \in activeBookings}
    IN  [i \in 1..Len(rs) |->
           [id |-> rs[i].id, name |-> rs[i].name,
            is_available |-> rs[i].id \notin occupiedRoomIds]]

\* new Date(y, m, d, 8, 0, 0) and new Date(y, m, d, 19, 0, 0) of the day of t
TodayStart(t) == NewDate(DayOf(t), <<WindowOpens>>, <<0>>)[1]
TodayEnd(t) == NewDate(DayOf(t), <<WindowCloses>>, <<0>>)[1]

\* a window that leaves out the booking ending as it opens
WindowBookingsOpen(t) ==
    { b \in bookings :
        /\ InstantOf(b.end_time) > InstantOf(ToISOString(TodayStart(t)))
        /\ InstantOf(b.start_time) <= InstantOf(ToISOString(TodayEnd(t))) }

\* .from('bookings').gte('end_time', todayStart).lte('start_time', todayEnd)
WindowBookings(t) ==
    { b \in bookings :
        /\ InstantOf(b.end_time) >= InstantOf(ToISOString(TodayStart(t)))
        /\ InstantOf(b.start_time) <= InstantOf(ToISOString(TodayEnd(t))) }

\* .order('start_time'): the orders the query may return the rows in, rows
\* of equal start_time in either order
RECURSIVE OrdersByStart(_)
OrdersByStart(S) ==
    IF S = {} THEN {<< >>}
    ELSE UNION { { <<b>> \o rest : rest \in OrdersByStart(S \ {b}) } :
                 b \in { x \in S : \A y \in S :
                            InstantOf(x.start_time) <= InstantOf(y.start_time) } }

\* an entry without the student
EntryAnonymous(booking) ==
    [start_time |-> booking.start_time, end_time |-> booking.end_time]

\* the object pushed for a booking
Entry(booking) ==
    [student_id |-> booking.student_id, start_time |-> booking.start_time,
     end_time |-> booking.end_time]

\* bookingsByRoom[room_id] || []
BookingsByRoom(bs, room_id) ==
    LET mine == SelectSeq(bs, LAMBDA b : b.room_id = room_id)
    IN  [i \in 1..Len(mine) |-> Entry(mine[i])]

\* rooms.map(...) over the grouped bookings
RoomSchedules(rs, bs) ==
    [i \in 1..Len(rs) |->
       [id |-> rs[i].id, name |-> rs[i].name,
        bookings |-> BookingsByRoom(bs, rs[i].id)]]

\* now.toISOString().split('T')[0]
DateOf(t) == <<ToISOString(t)[1]>>

\* the clock at the time the bookings are read
ReadAtLate == now

\* const now: the clock as the handler read it on entry
ReadAt == reader.now

\* the 200 answers the endpoint may give from the rooms it has read
Answers(h) ==
    IF h = "getRooms"
    THEN { Answer(200, "", << >>,
                  RoomsWithStatus(reader.rooms, ActiveBookings(ToISOString(ReadAt)))) }
    ELSE { Answer(200, "", DateOf(ReadAt), RoomSchedules(reader.rooms, bs)) :
             bs \in OrdersByStart(WindowBookings(ReadAt)) }

\* a catch block that answers with the rooms already read
CatchAnswerPartial(h) ==
    Answer(500, IF h = "getRooms" THEN FetchRoomsFailed ELSE FetchSchedulesFailed,
           << >>, reader.rooms)

\* the catch block
CatchAnswer(h) ==
    Answer(500, IF h = "getRooms" THEN FetchRoomsFailed ELSE FetchSchedulesFailed,
           << >>, << >>)

\* everything of the submission handler
submission ==
    <<pc, event, Locals, response, checkedAt, overlapped, submittedAt, queries,
      failure>>

\* a submission stands rejected
SubmissionRejected ==
    \E p \in Clients : pc[p] = "done" /\ response[p].statusCode \in {400, 409}

\* the handler returns a
Answered(a) == [reader EXCEPT !.pc = "done", !.response = a, !.rejected = SubmissionRejected]

\* method checks without the preflight branch
MethodAnswerGetOnly(m) ==
    IF m # "GET" THEN Answer(405, MethodNotAllowed, << >>, << >>)
    ELSE NoAnswer

\* the method checks of both read handlers: the answer, NoAnswer for a GET
MethodAnswer(m) ==
    IF m = "OPTIONS" THEN Answer(200, "", << >>, << >>)
    ELSE IF m # "GET" THEN Answer(405, MethodNotAllowed, << >>, << >>)
    ELSE NoAnswer

\* the handler of h is entered: the method checks, the clock read and the
\* rooms query
Call(h, m) ==
    /\ reader.pc = "idle"
    /\ reader' =
         IF MethodAnswer(m) # NoAnswer
         THEN [Answered(MethodAnswer(m)) EXCEPT !.endpoint = h, !.httpMethod = m]
         ELSE [reader EXCEPT !.pc = "rooms", !.endpoint = h, !.httpMethod = m,
                             !.now = now, !.queries = @ + 1]
    /\ UNCHANGED <<client, workload, now, ticks, store, submission>>

\* the rooms query answers and the bookings query is sent
RoomsRead ==
    /\ reader.pc = "rooms"
    /\ reader' = [reader EXCEPT !.pc = "bookings", !.rooms = ActiveRooms,
                                !.queries = @ + 1]
    /\ UNCHANGED <<client, workload, now, ticks, store, submission>>

\* the bookings query answers and the handler returns
BookingsRead ==
    /\ reader.pc = "bookings"
    /\ \E a \in Answers(reader.endpoint) : reader' = Answered(a)
    /\ UNCHANGED <<client, workload, now, ticks, store, submission>>

\* the rooms query answers with an error
RoomsReadFails ==
    /\ reader.pc = "rooms"
    /\ reader' = [Answered(CatchAnswer(reader.endpoint)) EXCEPT !.failed = TRUE]
    /\ UNCHANGED <<client, workload, now, ticks, store, submission>>

\* the bookings query answers with an error
BookingsReadFails ==
    /\ reader.pc = "bookings"
    /\ reader' = [Answered(CatchAnswer(reader.endpoint)) EXCEPT !.failed = TRUE]
    /\ UNCHANGED <<client, workload, now, ticks, store, submission>>

\* the invocation is over; the answer of a GET is kept for the next one
Close ==
    /\ reader.pc = "done"
    /\ reader' =
         IdleReader(IF reader.httpMethod = "GET"
                    THEN Past(reader.endpoint, reader.now, reader.response,
                              \A p \in Clients : pc[p] = "idle")
                    ELSE reader.prev)
    /\ UNCHANGED <<client, workload, now, ticks, store, submission>>

NextRead ==
    \/ \E p \in Clients : \E ev \in Events : Begin(p, ev)
    \/ \E p \in Clients : RoomLookup(p)
    \/ \E p \in Clients : ConflictCheck(p)
    \/ \E p \in Clients : PendingCheck(p)
    \/ \E p \in Clients : Insert(p)
    \/ \E p \in Clients : Finish(p)
    \/ Tick
    \/ \E h \in Endpoints : \E m \in Methods : Call(h, m)
    \/ RoomsRead
    \/ BookingsRead
    \/ Close

SpecRead == InitRead /\ [][NextRead]_vars

NextReadFaults ==
    \/ NextRead
    \/ RoomsReadFails
    \/ BookingsReadFails

SpecReadFaults == InitRead /\ [][NextReadFaults]_vars

\* ------------------------------------------- storage failures of the handler
\* an operation that fails returns an error and has no effect on its table

\* the storage operation of p that is under way fails
Fails(p, op) ==
    /\ pc[p] = op
    /\ failure' = [failure EXCEPT ![p] = op]
    /\ UNCHANGED <<client, reader, workload, now, ticks, store, event, Locals,
                   checkedAt, overlapped, submittedAt>>

\* line 80: roomError is answered like a room that is not there
RoomLookupFails(p) ==
    /\ Fails(p, "room")
    /\ Return(p, Response(400, InvalidRoom, 0))

\* lines 125-127: throw conflictError, caught by lines 178-189
ConflictCheckFails(p) ==
    /\ Fails(p, "conflicts")
    /\ Return(p, Response(500, SubmitFailed, 0))

\* lines 148-150: throw pendingError
PendingCheckFails(p) ==
    /\ Fails(p, "pending")
    /\ Return(p, Response(500, SubmitFailed, 0))

\* lines 165-167: throw insertError
InsertFails(p) ==
    /\ Fails(p, "insert")
    /\ Return(p, Response(500, SubmitFailed, 0))

NextFaults ==
    \/ NextRead
    \/ \E p \in Clients : RoomLookupFails(p)
    \/ \E p \in Clients : ConflictCheckFails(p)
    \/ \E p \in Clients : PendingCheckFails(p)
    \/ \E p \in Clients : InsertFails(p)

SpecFaults == InitRead /\ [][NextFaults]_vars

\* ---------------------------------------------------------------- the page
\* loadRooms, fetchWithTimeout and the two callers of loadRooms; the server
\* end of a fetch is getRooms

\* let rooms of the page
Page == client.rooms

Load(l) == client.loads[l]

\* fetch is outstanding or response.json() is
Loading(l) == Load(l).pc \in {"fetching", "json"}

\* client with the call l changed to r
WithLoad(l, r) == [client EXCEPT !.loads[l] = r]

\* the endpoints the caller queries when it fires: the refresh click calls
\* loadTimeline and loadRooms, the interval callback loadRooms
Queried(l) ==
    IF l = "manual" THEN {"getRoomSchedules", "getRooms"} ELSE {"getRooms"}

\* the page is shown: startAutoRefresh sets the interval
StartAutoRefresh ==
    /\ ~client.shown
    /\ client' = [client EXCEPT !.shown = TRUE, !.refreshInterval = TRUE]
    /\ UNCHANGED <<reader, workload, now, ticks, store, submission>>

\* beforeunload: stopAutoRefresh clears the interval
StopAutoRefresh ==
    /\ client.refreshInterval
    /\ client' = [client EXCEPT !.refreshInterval = FALSE]
    /\ UNCHANGED <<reader, workload, now, ticks, store, submission>>

\* the refresh click or the interval fires: loadRooms calls fetchWithTimeout,
\* which sends the request and arms the timer
StartLoad(l) ==
    /\ Load(l).pc = "idle"
    /\ l = "timer" => client.refreshInterval
    /\ client.issued < MaxLoads
    /\ client' =
         [client EXCEPT
            !.issued = @ + 1,
            !.loads = [k \in Loads |->
                         IF k = l
                         THEN [IdleLoad EXCEPT
                                 !.pc = "fetching", !.issue = client.issued + 1,
                                 !.queried = Queried(l),
                                 !.overlapped = \E o \in Loads \ {l} : Loading(o)]
                         ELSE IF Loading(k) THEN [@[k] EXCEPT !.overlapped = TRUE]
                         ELSE @[k]]]
    /\ UNCHANGED <<reader, workload, now, ticks, store, submission>>

\* the request has been sent and not answered
Unanswered(l) ==
    /\ Load(l).pc \in {"fetching", "abandoned"}
    /\ Load(l).answer = NoAnswer

\* getRooms answers the request of l from the store as the clock stands
Serve(l) ==
    /\ Unanswered(l)
    /\ client' =
         WithLoad(l, [Load(l) EXCEPT
                        !.servedAt = now,
                        !.answer = Answer(200, "", << >>,
                                          RoomsWithStatus(ActiveRooms,
                                                          ActiveBookings(ToISOString(now))))])
    /\ UNCHANGED <<reader, workload, now, ticks, store, submission>>

\* getRooms answers the request of l from its catch block
ServeFails(l) ==
    /\ Unanswered(l)
    /\ client' = WithLoad(l, [Load(l) EXCEPT !.servedAt = now,
                                             !.answer = CatchAnswer("getRooms")])
    /\ UNCHANGED <<reader, workload, now, ticks, store, submission>>

\* the fetch wins the race: loadRooms goes on, and throws if not response.ok
Resolve(l) ==
    /\ Load(l).pc = "fetching"
    /\ Load(l).answer # NoAnswer
    /\ client' =
         WithLoad(l, IF Load(l).answer.statusCode # 200
                     THEN [Load(l) EXCEPT !.pc = "done", !.outcome = "failed"]
                     ELSE [Load(l) EXCEPT !.pc = "json"])
    /\ UNCHANGED <<reader, workload, now, ticks, store, submission>>

\* the payload is assigned unless a call issued later has assigned its own
RoomsAfterIfNewest(l) ==
    IF client.last # "" /\ Load(client.last).issue > Load(l).issue THEN Page
    ELSE Load(l).answer.rooms

\* rooms = await response.json()
RoomsAfter(l) == Load(l).answer.rooms

\* response.json() resolves and the payload is assigned
Assign(l) ==
    /\ Load(l).pc = "json"
    /\ client' =
         [WithLoad(l, [Load(l) EXCEPT !.pc = "done", !.outcome = "loaded"]) EXCEPT
            !.rooms = RoomsAfter(l), !.last = l]
    /\ UNCHANGED <<reader, workload, now, ticks, store, submission>>

\* the timer wins the race: loadRooms takes its catch block; the fetch stays
\* outstanding
Timeout(l) ==
    /\ Load(l).pc = "fetching"
    /\ client' = WithLoad(l, [Load(l) EXCEPT !.pc = "abandoned", !.outcome = "failed"])
    /\ UNCHANGED <<reader, workload, now, ticks, store, submission>>

\* the response that lost the race is assigned all the same
LateRoomsApplied(l) ==
    IF Load(l).answer.statusCode = 200 THEN Load(l).answer.rooms ELSE Page

\* the race is settled: what the fetch resolves to reaches no one
LateRooms(l) == Page

\* the response of an abandoned call arrives
LateResponse(l) ==
    /\ Load(l).pc = "abandoned"
    /\ Load(l).answer # NoAnswer
    /\ client' = [WithLoad(l, [Load(l) EXCEPT !.pc = "late"]) EXCEPT
                    !.rooms = LateRooms(l)]
    /\ UNCHANGED <<reader, workload, now, ticks, store, submission>>

\* the call is over and its caller may fire again
Settle(l) ==
    /\ Load(l).pc \in {"done", "late"}
    /\ client' = WithLoad(l, IdleLoad)
    /\ UNCHANGED <<reader, workload, now, ticks, store, submission>>

NextClient ==
    \/ StartAutoRefresh
    \/ StopAutoRefresh
    \/ \E l \in Loads : StartLoad(l)
    \/ \E l \in Loads : Serve(l)
    \/ \E l \in Loads : ServeFails(l)
    \/ \E l \in Loads : Resolve(l)
    \/ \E l \in Loads : Assign(l)
    \/ \E l \in Loads : Timeout(l)
    \/ \E l \in Loads : LateResponse(l)
    \/ \E l \in Loads : Settle(l)
    \/ Tick

SpecClient == InitClient /\ [][NextClient]_vars

\* ================================================================ claims
\* What the claims speak of, stated from the inputs and the store alone.

IsDone(p) == pc[p] = "done"

\* a finished POST whose body was the text of an object
Posted(p) ==
    /\ IsDone(p)
    /\ event[p].httpMethod = "POST"
    /\ event[p].body.text = "object"

Input(p) == event[p].body.value

AllPresent(b) == Fields \subseteq DOMAIN b

\* present, and neither the empty string nor zero
AllGiven(b) ==
    /\ AllPresent(b)
    /\ b.student_id # << >>
    /\ b.start_time # << >>
    /\ b.room_id # 0
    /\ b.duration # 0

SixOrSevenDigits(s) ==
    /\ Len(s) \in {6, 7}
    /\ { s[i] : i \in 1..Len(s) } \subseteq Digits

DurationAllowed(d) == d \in 30..120

RoomExists(rid) == \E r \in rooms : r.id = rid
RoomActive(rid) == \E r \in rooms : r.id = rid /\ r.is_active

\* an HH:MM clock
ClockLike(st) ==
    /\ Len(st) = 5
    /\ st[3] = ":"
    /\ \A i \in {1, 2, 4, 5} : st[i] \in Digits

\* calendar day d at clock st
ClockInstant(d, st) ==
    d * MinutesPerDay
      + (10 * DigitVal(st[1]) + DigitVal(st[2])) * MinutesPerHour
      + 10 * DigitVal(st[4]) + DigitVal(st[5])

\* half-open overlap of [s1, e1) and [s2, e2)
Overlap(s1, e1, s2, e2) == s1 < e2 /\ s2 < e1

RowStart(r) == InstantOf(r.start_time)
RowEnd(r) == InstantOf(r.end_time)

Booked(rid, s, e) ==
    \E b \in bookings : b.room_id = rid /\ Overlap(RowStart(b), RowEnd(b), s, e)

Succeeded(p) == IsDone(p) /\ response[p].statusCode = 200 /\ response[p].request_id > 0

Rejected(p, code, msg) ==
    IsDone(p) /\ response[p] = Response(code, msg, 0)

\* C1: any two booking requests that submit accepted for the same room do
\* not overlap (s1 < e2 and s2 < e1), in every reachable state of the store.
C1_AcceptedDoNotOverlap ==
    \A i, j \in 1..Len(booking_requests) :
        (i # j /\ booking_requests[i].room_id = booking_requests[j].room_id)
        => ~Overlap(RowStart(booking_requests[i]), RowEnd(booking_requests[i]),
                    RowStart(booking_requests[j]), RowEnd(booking_requests[j]))

\* C2: of two invocations for the same room and overlapping intervals that
\* were in flight together, at most one returns success.
C2_AtMostOneConcurrentSuccess ==
    \A p, q \in Procs :
        (/\ p # q
         /\ q \in overlapped[p]
         /\ Succeeded(p)
         /\ Succeeded(q)
         /\ Input(p).room_id = Input(q).room_id)
        => ~Overlap(startDateTime[p][1], endDateTime[p][1],
                    startDateTime[q][1], endDateTime[q][1])

\* the row a valid submission is to leave in the table
ExpectedRow(i, b, day) ==
    [id |-> i,
     student_id |-> b.student_id,
     room_id |-> b.room_id,
     start_time |-> ToISOString(ClockInstant(day, b.start_time)),
     end_time |-> ToISOString(ClockInstant(day, b.start_time) + b.duration),
     status |-> "pending"]

\* a submission with a valid student id, a duration in [30,120], an existing
\* active room, a start after the clock read t and no overlapping booking
ValidSubmission(b, t) ==
    /\ AllPresent(b)
    /\ SixOrSevenDigits(b.student_id)
    /\ DurationAllowed(b.duration)
    /\ RoomActive(b.room_id)
    /\ ClockLike(b.start_time)
    /\ ClockInstant(DayOf(t), b.start_time) > t
    /\ ~Booked(b.room_id, ClockInstant(DayOf(t), b.start_time),
               ClockInstant(DayOf(t), b.start_time) + b.duration)

\* C3: every valid submission (valid student id, duration in [30,120],
\* existing active room, start strictly after now, no overlapping confirmed
\* booking) never ends in a rejection, and the step that answers it returns
\* success with the id of the one row it appends: status pending, start at
\* today's date at the start clock, end at start + duration.  No other step
\* changes the table.
C3_ValidSubmissionPersisted ==
    [][ /\ \A p \in Procs :
             (/\ InFlight(p)
              /\ IsDone(p)'
              /\ ValidSubmission(Input(p), IF pc[p] = "room" THEN now ELSE checkedAt[p]))
             => /\ response'[p].statusCode = 200
                /\ response'[p].request_id = Len(booking_requests) + 1
                /\ booking_requests' =
                     Append(booking_requests,
                            ExpectedRow(Len(booking_requests) + 1, Input(p),
                                        DayOf(checkedAt[p])))
        /\ booking_requests' # booking_requests
             => \E p \in Procs :
                  /\ InFlight(p) /\ Succeeded(p)'
                  /\ Len(booking_requests') = Len(booking_requests) + 1
      ]_vars

\* a valid submission whose interval touches a confirmed booking was accepted
C3_Witness ==
    \E p \in Procs :
        /\ Posted(p) /\ Succeeded(p)
        /\ ValidSubmission(Input(p), checkedAt[p])
        /\ \E b \in bookings :
              /\ b.room_id = Input(p).room_id
              /\ RowEnd(b) = startDateTime[p][1]
        /\ booking_requests[response[p].request_id].status = "pending"

\* the rules of the validation order, each on its own
Violates(k, b, t) ==
    CASE k = 1 -> ~AllGiven(b)
      [] k = 2 -> "student_id" \in DOMAIN b /\ ~SixOrSevenDigits(b.student_id)
      [] k = 3 -> "duration" \in DOMAIN b /\ ~DurationAllowed(b.duration)
      [] k = 4 -> "room_id" \in DOMAIN b /\ ~RoomExists(b.room_id)
      [] k = 5 -> "room_id" \in DOMAIN b /\ RoomExists(b.room_id) /\ ~RoomActive(b.room_id)
      [] k = 6 -> /\ "start_time" \in DOMAIN b
                  /\ ClockLike(b.start_time)
                  /\ ClockInstant(DayOf(t), b.start_time) <= t
      [] k = 7 -> /\ AllPresent(b)
                  /\ ClockLike(b.start_time)
                  /\ Booked(b.room_id, ClockInstant(DayOf(t), b.start_time),
                            ClockInstant(DayOf(t), b.start_time) + b.duration)

Violated(b, t) == { k \in 1..7 : Violates(k, b, t) }

FirstViolated(b, t) == CHOOSE k \in Violated(b, t) : \A j \in Violated(b, t) : k <= j

\* the answer that goes with each rule
Rejection(k) ==
    CASE k = 1 -> Response(400, MissingFields, 0)
      [] k = 2 -> Response(400, InvalidStudentId, 0)
      [] k = 3 -> Response(400, InvalidDuration, 0)
      [] k = 4 -> Response(400, InvalidRoom, 0)
      [] k = 5 -> Response(400, InactiveRoom, 0)
      [] k = 6 -> Response(400, StartTimeInPast, 0)
      [] k = 7 -> Response(409, RoomAlreadyBooked, 0)

\* C4: a submission that violates one or several rules is answered with the
\* rejection of the first rule it violates, in the order MissingFields,
\* InvalidStudentId, InvalidDuration, InvalidRoom, InactiveRoom,
\* StartTimeInPast, RoomAlreadyBooked; the answer is a function of the
\* inputs, the store and the clock read.
C4_FirstFailingRule ==
    \A p \in Procs :
        (Posted(p) /\ Violated(Input(p), checkedAt[p]) # {})
        => response[p] = Rejection(FirstViolated(Input(p), checkedAt[p]))

\* a submission that violated at least three rules was answered
C4_Witness ==
    \E p \in Procs :
        /\ Posted(p)
        /\ Cardinality(Violated(Input(p), checkedAt[p])) >= 3
        /\ FirstViolated(Input(p), checkedAt[p]) = 2
        /\ response[p] = Rejection(2)

\* a submission that the rules 1-5 let through, with its interval
PassesRules1To5(p) ==
    /\ Posted(p)
    /\ AllGiven(Input(p))
    /\ SixOrSevenDigits(Input(p).student_id)
    /\ DurationAllowed(Input(p).duration)
    /\ RoomActive(Input(p).room_id)
    /\ ClockLike(Input(p).start_time)
    /\ ClockInstant(DayOf(checkedAt[p]), Input(p).start_time) > checkedAt[p]

StartInstant(p) == ClockInstant(DayOf(checkedAt[p]), Input(p).start_time)
EndInstant(p) == StartInstant(p) + Input(p).duration

\* C5: a submission that passes rules 1-5 is rejected with RoomAlreadyBooked
\* (409) if and only if some confirmed booking of the same room has
\* start_time < endInstant and end_time > startInstant, and is accepted
\* otherwise: touching intervals and bookings of other rooms do not reject.
C5_RejectedIffBooked ==
    \A p \in Procs :
        PassesRules1To5(p)
        => LET hit == \E b \in bookings :
                         /\ b.room_id = Input(p).room_id
                         /\ RowStart(b) < EndInstant(p)
                         /\ RowEnd(b) > StartInstant(p)
           IN  /\ Rejected(p, 409, RoomAlreadyBooked) <=> hit
               /\ Succeeded(p) <=> ~hit

\* a request ending exactly where a booking of its room starts was accepted,
\* while a booking of another room overlapped it
C5_Witness ==
    \E p \in Procs :
        /\ PassesRules1To5(p)
        /\ Succeeded(p)
        /\ \E b \in bookings :
              b.room_id = Input(p).room_id /\ RowStart(b) = EndInstant(p)
        /\ \E b \in bookings :
              /\ b.room_id # Input(p).room_id
              /\ Overlap(RowStart(b), RowEnd(b), StartInstant(p), EndInstant(p))

\* C6: every persisted booking request has its start instant and its end
\* instant on the calendar date of its submission.
C6_SameDay ==
    \A i \in 1..Len(booking_requests) :
        /\ booking_requests[i].start_time[1] = DayOf(submittedAt[i])
        /\ booking_requests[i].end_time[1] = DayOf(submittedAt[i])

\* a submission that the rules 1-4 let through
PassesRules1To4(p) ==
    /\ Posted(p)
    /\ AllGiven(Input(p))
    /\ SixOrSevenDigits(Input(p).student_id)
    /\ DurationAllowed(Input(p).duration)
    /\ RoomActive(Input(p).room_id)

\* C7: a submission that passes rules 1-4 and whose start instant is not
\* after the clock it was checked against (equal included) is rejected with
\* StartTimeInPast, and every persisted booking request starts strictly
\* after the instant its submission was checked at.
C7_StartStrictlyInFuture ==
    /\ \A p \in Procs :
          (/\ PassesRules1To4(p)
           /\ ClockLike(Input(p).start_time)
           /\ StartInstant(p) <= checkedAt[p])
          => Rejected(p, 400, StartTimeInPast)
    /\ \A i \in 1..Len(booking_requests) :
          RowStart(booking_requests[i]) > submittedAt[i]

\* a submission for the very minute of the clock was rejected
C7_Witness ==
    \E p \in Procs :
        /\ PassesRules1To4(p)
        /\ ClockLike(Input(p).start_time)
        /\ StartInstant(p) = checkedAt[p]
        /\ checkedAt[p] = now
        /\ Rejected(p, 400, StartTimeInPast)

\* C8: a submission that passes rules 1-2 is rejected with InvalidDuration
\* exactly when its duration is below 30 or above 120 (30 and 120 pass),
\* and every persisted booking request lasts between 30 and 120 minutes.
C8_DurationRange ==
    /\ \A p \in Procs :
          (Posted(p) /\ AllGiven(Input(p)) /\ SixOrSevenDigits(Input(p).student_id))
          => (Rejected(p, 400, InvalidDuration)
                <=> (Input(p).duration < 30 \/ Input(p).duration > 120))
    /\ \A i \in 1..Len(booking_requests) :
          /\ RowEnd(booking_requests[i]) - RowStart(booking_requests[i]) >= 30
          /\ RowEnd(booking_requests[i]) - RowStart(booking_requests[i]) <= 120

\* a submission of 120 minutes was accepted and its row lasts 120 minutes
C8_Witness ==
    \E p \in Procs :
        /\ Posted(p) /\ Succeeded(p)
        /\ Input(p).duration = 120
        /\ LET r == booking_requests[response[p].request_id]
           IN  RowEnd(r) - RowStart(r) = 120

\* C9: a submission that passes rule 1 passes the student-id rule if and
\* only if its student id is exactly 6 or 7 digits and nothing else, is
\* rejected with InvalidStudentId otherwise, and every persisted booking
\* request carries a student id of 6 or 7 digits.
C9_StudentIdFormat ==
    /\ \A p \in Procs :
          (Posted(p) /\ AllGiven(Input(p)))
          => (Rejected(p, 400, InvalidStudentId)
                <=> ~SixOrSevenDigits(Input(p).student_id))
    /\ \A i \in 1..Len(booking_requests) :
          SixOrSevenDigits(booking_requests[i].student_id)

\* a submission with a 7-digit student id was accepted
C9_Witness ==
    \E p \in Procs :
        /\ Posted(p) /\ Succeeded(p)
        /\ Len(Input(p).student_id) = 7
        /\ booking_requests[response[p].request_id].student_id = Input(p).student_id

PassesRules1To3(p) ==
    /\ Posted(p)
    /\ AllGiven(Input(p))
    /\ SixOrSevenDigits(Input(p).student_id)
    /\ DurationAllowed(Input(p).duration)

\* rule 4 of the validation order, on the invocations that are over
RoomRuleAnswers ==
    \A p \in Procs :
        PassesRules1To3(p)
        => /\ ~RoomExists(Input(p).room_id) => Rejected(p, 400, InvalidRoom)
           /\ (RoomExists(Input(p).room_id) /\ ~RoomActive(Input(p).room_id))
                => Rejected(p, 400, InactiveRoom)

RowsNameActiveRooms ==
    \A i \in 1..Len(booking_requests) : RoomActive(booking_requests[i].room_id)

\* C11: a submission that passes rules 1-3 and names a room that is not in
\* the store is rejected with InvalidRoom, one that names an inactive room
\* with InactiveRoom; the step that answers so persists nothing, and every
\* persisted booking request names a room that exists and is active.
C11_RoomExistsAndActive ==
    [][ /\ RoomRuleAnswers'
        /\ RowsNameActiveRooms'
        /\ \A p \in Procs :
             (~IsDone(p) /\ IsDone(p)'
              /\ response'[p].message \in {InvalidRoom, InactiveRoom})
             => booking_requests' = booking_requests
      ]_vars

\* a submission for the inactive room was rejected with InactiveRoom and
\* the table is as it was
C11_Witness ==
    \E p \in Procs :
        /\ PassesRules1To3(p)
        /\ RoomExists(Input(p).room_id)
        /\ ~RoomActive(Input(p).room_id)
        /\ Rejected(p, 400, InactiveRoom)
        /\ booking_requests = << >>

\* ------------------------------------------------- the read endpoints' claims

\* a GET of endpoint h has been answered 200
Listed(h) ==
    /\ reader.pc = "done"
    /\ reader.endpoint = h
    /\ reader.httpMethod = "GET"
    /\ reader.response.statusCode = 200

\* the entries of the answer
Entries == reader.response.rooms

ActiveRoomIds == {r.id : r \in {q \in rooms : q.is_active}}

\* C12: no bookings entry of an answer of getRoomSchedules carries a
\* student_id field.
C12_NoStudentInSchedule ==
    Listed("getRoomSchedules") =>
        \A i \in 1..Len(Entries) :
            \A j \in 1..Len(Entries[i].bookings) :
                "student_id" \notin DOMAIN Entries[i].bookings[j]

\* some confirmed booking of the room covers instant t, both ends inclusive
Covered(room_id, t) ==
    \E b \in bookings :
        /\ b.room_id = room_id
        /\ InstantOf(b.start_time) <= t
        /\ t <= InstantOf(b.end_time)

\* C13: getRooms, having read the clock at instant t, marks a room
\* unavailable if and only if some confirmed booking of that room has
\* start_time <= t <= end_time; bookings of other rooms play no part.
C13_UnavailableIffCovered ==
    Listed("getRooms") =>
        \A i \in 1..Len(Entries) :
            Entries[i].is_available <=> ~Covered(Entries[i].id, reader.now)

\* at the very end instant of a booking its room is listed unavailable,
\* next to a room that is listed available while the first is occupied
C13_Witness ==
    /\ Listed("getRooms")
    /\ \E i, j \in 1..Len(Entries) :
         /\ ~Entries[i].is_available
         /\ \E b \in bookings :
              b.room_id = Entries[i].id /\ InstantOf(b.end_time) = reader.now
         /\ Entries[j].is_available
         /\ \E b \in bookings :
              b.room_id = Entries[j].id /\ InstantOf(b.start_time) > reader.now

\* the entries name exactly the active rooms, each once, in ascending id
ExactlyActiveRooms ==
    /\ {Entries[i].id : i \in 1..Len(Entries)} = ActiveRoomIds
    /\ Len(Entries) = Cardinality(ActiveRoomIds)
    /\ \A i \in 1..Len(Entries) :
         \E r \in rooms : r.id = Entries[i].id /\ r.name = Entries[i].name

Ascending ==
    \A i, j \in 1..Len(Entries) : i < j => Entries[i].id < Entries[j].id

RoomsListed == Listed("getRooms") => (ExactlyActiveRooms /\ Ascending)

\* C14: an answer of getRooms lists exactly the active rooms of the store,
\* each once, in ascending id order, never an inactive one; no step of
\* getRooms changes a table.
C14_ActiveRoomsAscending ==
    [][ /\ RoomsListed'
        /\ (reader' # reader /\ "getRooms" \in {reader.endpoint, reader'.endpoint})
             => UNCHANGED store
      ]_vars

\* getRooms has answered with two rooms from a store holding an inactive
\* third and a booking request
C14_Witness ==
    /\ Listed("getRooms")
    /\ Len(Entries) = 2
    /\ \E r \in rooms : ~r.is_active
    /\ booking_requests # << >>

\* the booking overlaps the display window of the day of instant t
InWindow(b, t) ==
    /\ InstantOf(b.end_time) >= DayOf(t) * MinutesPerDay + WindowOpens * MinutesPerHour
    /\ InstantOf(b.start_time) <= DayOf(t) * MinutesPerDay + WindowCloses * MinutesPerHour

WindowOf(room_id, t) == {b \in bookings : b.room_id = room_id /\ InWindow(b, t)}

\* the entry pairs the room with exactly its bookings of the window, in
\* ascending order of start
Scheduled(e, t) ==
    /\ Len(e.bookings) = Cardinality(WindowOf(e.id, t))
    /\ { <<e.bookings[j].start_time, e.bookings[j].end_time>> : j \in 1..Len(e.bookings) }
         = { <<b.start_time, b.end_time>> : b \in WindowOf(e.id, t) }
    /\ \A j, k \in 1..Len(e.bookings) :
         j < k => InstantOf(e.bookings[j].start_time) <= InstantOf(e.bookings[k].start_time)

C16_FailedReadNoEntries ==
    (reader.pc = "done" /\ reader.failed) =>
        /\ reader.response.statusCode = 500
        /\ reader.response.rooms = << >>
        /\ reader.response.date = << >>
        /\ reader.response.message =
             (IF reader.endpoint = "getRooms" THEN FetchRoomsFailed
              ELSE FetchSchedulesFailed)

\* the rooms were read, the read of bookings failed, and the answer is 500
C16_Witness ==
    /\ reader.pc = "done"
    /\ reader.failed
    /\ reader.rooms # << >>
    /\ reader.response.statusCode = 500

\* the GET answered now read the same clock as the GET before it, of the
\* same endpoint
Repeated ==
    /\ reader.pc = "done"
    /\ reader.httpMethod = "GET"
    /\ reader.prev.endpoint = reader.endpoint
    /\ reader.prev.now = reader.now

\* C17: two GETs of the same read endpoint that read the same clock value
\* get the same answer, whatever submissions were made or rejected between
\* them (no handler writes the tables rooms and bookings).
C17_RepeatedReadSameAnswer ==
    Repeated => reader.response = reader.prev.response

\* the submission handler was idle when the first GET ended and stood
\* rejected when the second was answered
C17_Witness ==
    /\ Repeated
    /\ reader.response.statusCode = 200
    /\ reader.response.rooms # << >>
    /\ reader.prev.quiet
    /\ reader.rejected

\* the method answers of the read endpoints
ReadMethodAnswers ==
    reader.pc = "done" =>
        /\ reader.httpMethod = "OPTIONS" =>
             (reader.response = Answer(200, "", << >>, << >>) /\ reader.queries = 0)
        /\ reader.httpMethod \notin {"OPTIONS", "GET"} =>
             (/\ reader.response.statusCode = 405
              /\ reader.response.rooms = << >>
              /\ reader.queries = 0)

\* the method answers of submitBookingRequest
SubmitMethodAnswers ==
    \A p \in Procs :
        IsDone(p) =>
            /\ event[p].httpMethod = "OPTIONS" =>
                 (response[p] = Response(200, "", 0) /\ queries[p] = 0)
            /\ event[p].httpMethod \notin {"OPTIONS", "POST"} =>
                 (response[p] = Response(405, MethodNotAllowed, 0) /\ queries[p] = 0)

\* C18: each of the three endpoints answers OPTIONS with 200 and an empty
\* body and any method other than its own (GET for the read endpoints, POST
\* for submitBookingRequest) with 405, whatever the body; it issues no
\* storage operation, and the step that answers leaves the tables as they
\* were.
C18_PreflightAndMethod ==
    [][ /\ ReadMethodAnswers'
        /\ SubmitMethodAnswers'
        /\ (reader.pc # "done" /\ reader'.pc = "done" /\ reader'.httpMethod # "GET")
             => UNCHANGED store
        /\ \A p \in Procs :
             (~IsDone(p) /\ IsDone(p)' /\ event'[p].httpMethod # "POST")
             => UNCHANGED store
      ]_vars

\* a GET with an invalid body stands answered 405 by submitBookingRequest
\* while a read endpoint has answered a POST with 405, with no storage
\* operation issued by either
C18_Witness ==
    /\ \E p \in Procs :
         /\ IsDone(p)
         /\ event[p].httpMethod = "GET"
         /\ Validate(Input(p)) # ""
         /\ response[p].statusCode = 405
         /\ queries[p] = 0
    /\ reader.pc = "done"
    /\ reader.httpMethod = "POST"
    /\ reader.response.statusCode = 405
    /\ reader.queries = 0

\* ------------------------------------------------------- the page's claims

\* the step in which response.json() of call l resolves
JsonResolves(l) == Load(l).pc = "json" /\ Load(l)'.pc = "done"

\* C19: whenever the response of a call of loadRooms resolves, the page's
\* rooms become the payload of that response, whichever call was issued
\* first, and nothing else changes them: after a manual and a timer call
\* that were in flight together, rooms is the payload that resolved last.
C19_LastResponseWins ==
    [][ /\ \A l \in Loads : JsonResolves(l) => Page' = Load(l).answer.rooms
        /\ (\A l \in Loads : ~JsonResolves(l)) => Page' = Page
      ]_vars

\* the manual call was issued and served before the timer call, both were
\* in flight together, the manual one resolved last, and the page shows
\* its older payload, not the newer one
C19_Witness ==
    /\ \A l \in Loads : Load(l).pc = "done" /\ Load(l).outcome = "loaded"
    /\ Load("manual").overlapped
    /\ Load("manual").issue < Load("timer").issue
    /\ Load("manual").servedAt < Load("timer").servedAt
    /\ client.last = "manual"
    /\ Page = Load("manual").answer.rooms
    /\ Page # Load("timer").answer.rooms

\* the step in which the response of abandoned call l arrives
ArrivesLate(l) == Load(l).pc = "abandoned" /\ Load(l)'.pc = "late"

\* C20 as the spec has it: when the response of a call that timed out
\* arrives, its payload is assigned to the page's rooms.
C20_LateUpdateApplied ==
    [][ \A l \in Loads :
          (ArrivesLate(l) /\ Load(l).answer.statusCode = 200)
          => Page' = Load(l).answer.rooms
      ]_vars

\* C20: a call of loadRooms whose timer fires before its fetch resolves
\* takes its failure path, and when its response arrives afterwards the
\* page's rooms are left as they were.
C20_LateResponseDiscarded ==
    [][ \A l \in Loads :
          /\ (Load(l).pc = "fetching" /\ Load(l)'.pc = "abandoned")
               => (Load(l)'.outcome = "failed" /\ Page' = Page)
          /\ ArrivesLate(l) => (Load(l)'.outcome = "failed" /\ Page' = Page)
      ]_vars

\* the response of a call that timed out has arrived with a payload other
\* than the rooms the page shows from an earlier load
C20_Witness ==
    \E l \in Loads :
        /\ Load(l).pc = "late"
        /\ Load(l).outcome = "failed"
        /\ Load(l).answer.statusCode = 200
        /\ Page # << >>
        /\ Page # Load(l).answer.rooms

\* ------------------------------------------------ the last claims of submit

\* the pending requests of the room of p that overlap the interval of p
OverlappingPending(p) ==
    { i \in 1..Len(booking_requests) :
        /\ booking_requests[i].room_id = Input(p).room_id
        /\ booking_requests[i].status = "pending"
        /\ Overlap(RowStart(booking_requests[i]), RowEnd(booking_requests[i]),
                   StartInstant(p), EndInstant(p)) }

\* C22: the pending-request query returns the pending requests of the same
\* room that overlap the submission, the handler goes on to the insert
\* whatever it returned, and the insert is answered with success and one
\* appended row: the answer does not depend on the query's result.
C22_PendingNotBranchedOn ==
    [][ \A p \in Procs :
          /\ (pc[p] = "pending" /\ pc'[p] # "pending")
               => /\ pc'[p] = "insert"
                  /\ response'[p] = response[p]
                  /\ pendingConflicts'[p] = OverlappingPending(p)
          /\ (pc[p] = "insert" /\ pc'[p] # "insert")
               => /\ response'[p] = Response(200, Submitted, Len(booking_requests) + 1)
                  /\ Len(booking_requests') = Len(booking_requests) + 1
      ]_vars

\* a submission that passed rules 1-6 was accepted although a pending
\* request of its room overlapped it
C22_Witness ==
    \E p \in Procs :
        /\ PassesRules1To5(p)
        /\ ~Booked(Input(p).room_id, StartInstant(p), EndInstant(p))
        /\ Succeeded(p)
        /\ pendingConflicts[p] # {}
        /\ \E i \in pendingConflicts[p] :
              /\ booking_requests[i].room_id = Input(p).room_id
              /\ i # response[p].request_id

\* the table booking_requests after the step is the table before it with
\* one pending row appended
OnePendingRowAppended ==
    /\ Len(booking_requests') = Len(booking_requests) + 1
    /\ SubSeq(booking_requests', 1, Len(booking_requests)) = booking_requests
    /\ booking_requests'[Len(booking_requests')].status = "pending"

\* C23: the table booking_requests changes only by the append of one row
\* with status pending, in the step in which submitBookingRequest answers
\* 200; a step that answers 400, 405, 409 or 500 leaves it as it was; and no
\* step of submitBookingRequest, getRooms or getRoomSchedules changes the
\* tables rooms and bookings or a row already in booking_requests.
C23_OnlyInsertOnSuccess ==
    [][ /\ booking_requests' # booking_requests
             => /\ OnePendingRowAppended
                /\ \E p \in Procs :
                      pc[p] = "insert" /\ IsDone(p)' /\ response'[p].statusCode = 200
        /\ \A p \in Procs :
             (~IsDone(p) /\ IsDone(p)' /\ response'[p].statusCode \in {400, 405, 409, 500})
             => booking_requests' = booking_requests
        /\ rooms' = rooms
        /\ bookings' = bookings
      ]_vars

\* after one accepted submission and a read of the rooms, a second
\* submission whose insert failed stands answered 500 and the table holds
\* the one pending row
C23_Witness ==
    /\ \E p \in Procs :
         /\ IsDone(p)
         /\ failure[p] = "insert"
         /\ response[p].statusCode = 500
    /\ Len(booking_requests) = 1
    /\ booking_requests[1].status = "pending"
    /\ Listed("getRooms")

\* C24: an invocation one of whose storage operations failed is answered
\* 500, never 400 or 409.
C24_StorageFailureIs500 ==
    \A p \in Procs :
        (IsDone(p) /\ failure[p] # "") => response[p].statusCode = 500

\* the step in which the interval fires
IntervalFires == Load("timer").pc = "idle" /\ Load("timer")'.pc = "fetching"

\* C21: the interval fires only between startAutoRefresh and
\* stopAutoRefresh, and each time it fires the page queries both getRooms
\* and getRoomSchedules.
C21_TickIssuesBothQueries ==
    [][ IntervalFires
          => /\ client.refreshInterval
             /\ Load("timer")'.queried = Endpoints
      ]_vars

====
